---------------------------- MODULE Spec2Model ----------------------------
(***************************************************************************)
(* A model of imap-cli's search front end: the criterion builder of        *)
(* imap_cli/search.py, the UID resolver and the response parser shared by  *)
(* search.py and show.py, and the command line entry point of show.py.     *)
(*                                                                         *)
(* A Python str is a sequence of one-character strings; a Python list is a *)
(* sequence; an optional argument is a sequence of length 0 (None) or 1.   *)
(***************************************************************************)
EXTENDS Integers, Sequences, FiniteSets, TLC

VARIABLES pc, call, gen, run, imap_account, limit, mail_set, out, result, intr

vars == <<pc, call, gen, run, imap_account, limit, mail_set, out, result, intr>>

main_vars == <<run, imap_account, limit, mail_set, out, result, intr>>

(***************************************************************************)
(* Bounds of the model.                                                    *)
(***************************************************************************)
MaxWordLen == 3
MaxCrit == 3
MaxRawLen == 4
MaxLimit == 3
MaxLines == 2
MaxUids == 3

(***************************************************************************)
(* Python values.                                                          *)
(***************************************************************************)
NoneV == <<>>
Some(x) == <<x>>
IsNone(o) == Len(o) = 0
Val(o) == o[1]

\* str.isspace() of one character, over the characters the model uses.
PyWhitespace == {" ", "\t", "\n", "\r", "\f"}
isspace(c) == c \in PyWhitespace

\* sep.join(parts)
RECURSIVE join(_, _)
join(sep, parts) ==
    IF Len(parts) = 0 THEN <<>>
    ELSE IF Len(parts) = 1 THEN parts[1]
    ELSE parts[1] \o sep \o join(sep, Tail(parts))

\* s.split(): the maximal runs of non-whitespace characters, in order.
RECURSIVE split_from(_, _, _)
split_from(s, i, cur) ==
    IF i > Len(s) THEN (IF Len(cur) = 0 THEN <<>> ELSE <<cur>>)
    ELSE IF isspace(s[i])
         THEN (IF Len(cur) = 0 THEN <<>> ELSE <<cur>>) \o split_from(s, i + 1, <<>>)
         ELSE split_from(s, i + 1, Append(cur, s[i]))
split(s) == split_from(s, 1, <<>>)

\* seq[-n:] for n # 0 (Python clamps the start to the sequence).
SliceLast(seq, n) ==
    LET start == IF n > 0
                 THEN (IF Len(seq) - n < 0 THEN 0 ELSE Len(seq) - n)
                 ELSE (IF -n > Len(seq) THEN Len(seq) ELSE -n)
    IN  IF n = 0 THEN seq ELSE SubSeq(seq, start + 1, Len(seq))

(***************************************************************************)
(* Words of the model.                                                     *)
(***************************************************************************)
Alphabet == {"a", "b", " ", "\t", "\""}

RECURSIVE WordsOfLen(_)
WordsOfLen(n) ==
    IF n = 0 THEN {<<>>}
    ELSE {Append(w, c) : w \in WordsOfLen(n - 1), c \in Alphabet}

Words == UNION {WordsOfLen(n) : n \in 0..MaxWordLen}

W_FROM == <<"F", "R", "O", "M">>
W_ALL == <<"A", "L", "L">>
W_alice == <<"a", "l", "i", "c", "e", "@", "e", "x", "a", "m", "p", "l", "e",
             ".", "o", "r", "g">>
W_a_b == <<"a", " ", "b">>
W_tab == <<"a", "\t", "b">>
W_quote == <<"a", "\"", "b">>

CritWords == {W_FROM, W_alice, W_a_b, W_tab, W_quote, <<>>}

RECURSIVE ListsOfLen(_, _)
ListsOfLen(S, n) ==
    IF n = 0 THEN {<<>>}
    ELSE {Append(l, x) : l \in ListsOfLen(S, n - 1), x \in S}

ListsUpTo(S, n) == UNION {ListsOfLen(S, k) : k \in 0..n}

Operators == {"AND", "OR", "NOT", "XOR"}

(***************************************************************************)
(* search.py: the criterion builder.                                       *)
(***************************************************************************)
escape_space_only(word) ==
    IF \E i \in 1..Len(word) : word[i] = " "
    THEN <<"\"">> \o word \o <<"\"">>
    ELSE word

escape_always(word) == <<"\"">> \o word \o <<"\"">>

escape(word) ==
    IF \E i \in 1..Len(word) : isspace(word[i])
    THEN <<"\"">> \o word \o <<"\"">>
    ELSE word

escape_all(search_criterion) ==
    [i \in 1..Len(search_criterion) |-> escape(search_criterion[i])]

combine_unescaped(search_criterion, operator) ==
    <<"(">> \o join(<<" ">>, search_criterion) \o <<")">>

combine_search_criterion(search_criterion, operator) ==
    LET op == IF operator \notin {"AND", "OR", "NOT"} THEN "AND" ELSE operator
        body == join(<<" ">>, escape_all(search_criterion))
    IN  IF op = "AND" THEN <<"(">> \o body \o <<")">>
        ELSE IF op = "OR" THEN <<"O", "R", " ">> \o body
        ELSE <<"N", "O", "T", " ">> \o body

\* str(n) of a natural number.
Digits == <<"0", "1", "2", "3", "4", "5", "6", "7", "8", "9">>
RECURSIVE str_int(_)
str_int(n) ==
    IF n < 10 THEN <<Digits[n + 1]>>
    ELSE str_int(n \div 10) \o <<Digits[(n % 10) + 1]>>

\* n written in at least `width` digits, padded with zeros (%d and %Y of strftime).
RECURSIVE zero_pad(_, _)
zero_pad(s, width) == IF Len(s) >= width THEN s ELSE zero_pad(<<"0">> \o s, width)

\* str.upper() of one character.
LowerCase == <<"a", "b", "c", "d", "e", "f", "g", "h", "i", "j", "k", "l", "m",
               "n", "o", "p", "q", "r", "s", "t", "u", "v", "w", "x", "y", "z">>
UpperCase == <<"A", "B", "C", "D", "E", "F", "G", "H", "I", "J", "K", "L", "M",
               "N", "O", "P", "Q", "R", "S", "T", "U", "V", "W", "X", "Y", "Z">>
upper_char(c) ==
    IF \E i \in 1..26 : LowerCase[i] = c
    THEN UpperCase[CHOOSE i \in 1..26 : LowerCase[i] = c]
    ELSE c
upper(s) == [i \in 1..Len(s) |-> upper_char(s[i])]

\* The %h (abbreviated month) names of strftime.
MonthAbbr == <<
    <<"J", "a", "n">>, <<"F", "e", "b">>, <<"M", "a", "r">>, <<"A", "p", "r">>,
    <<"M", "a", "y">>, <<"J", "u", "n">>, <<"J", "u", "l">>, <<"A", "u", "g">>,
    <<"S", "e", "p">>, <<"O", "c", "t">>, <<"N", "o", "v">>, <<"D", "e", "c">> >>

\* datetime.strftime('%d-%h-%Y')
strftime_d_h_Y(d) ==
    zero_pad(str_int(d.day), 2) \o <<"-">> \o MonthAbbr[d.month] \o <<"-">>
        \o zero_pad(str_int(d.year), 4)

\* const.IMAP_SPECIAL_FLAGS: the recognised IMAP system flag names.
IMAP_SPECIAL_FLAGS == {
    <<"A", "N", "S", "W", "E", "R", "E", "D">>,
    <<"D", "E", "L", "E", "T", "E", "D">>,
    <<"D", "R", "A", "F", "T">>,
    <<"F", "L", "A", "G", "G", "E", "D">>,
    <<"R", "E", "C", "E", "N", "T">>,
    <<"S", "E", "E", "N">>,
    <<"U", "N", "S", "E", "E", "N">> }

quoted(s) == <<"\"">> \o s \o <<"\"">>

create_search_criterion_by_date(datetime, relative, sent) ==
    LET rel == IF relative \notin {<<"B", "E", "F", "O", "R", "E">>, <<"O", "N">>,
                                   <<"S", "I", "N", "C", "E">>}
               THEN <<"S", "I", "N", "C", "E">> ELSE relative
    IN  (IF sent THEN <<"S", "E", "N", "T">> ELSE <<>>) \o rel \o <<" ">>
            \o strftime_d_h_Y(datetime)

create_search_criterion_by_mail_address(mail_address, header_name) ==
    LET h == IF header_name \notin {<<"B", "C", "C">>, <<"C", "C">>, W_FROM,
                                    <<"T", "O">>}
             THEN W_FROM ELSE header_name
    IN  h \o <<" ">> \o quoted(mail_address)

create_search_criterion_by_size(size, relative) ==
    LET rel == IF relative \notin {<<"L", "A", "R", "G", "E", "R">>,
                                   <<"S", "M", "A", "L", "L", "E", "R">>}
               THEN <<"L", "A", "R", "G", "E", "R">> ELSE relative
    IN  rel \o <<" ">> \o quoted(str_int(size))

create_search_criterion_by_subject(subject) ==
    <<"S", "U", "B", "J", "E", "C", "T", " ">> \o quoted(subject)

tag_criterion(tag) ==
    IF upper(tag) \in IMAP_SPECIAL_FLAGS THEN upper(tag)
    ELSE <<"K", "E", "Y", "W", "O", "R", "D", " ">> \o quoted(tag)

create_search_criteria_by_tag(tags) ==
    IF Len(tags) = 0 THEN <<>>
    ELSE LET criterion == [i \in 1..Len(tags) |-> tag_criterion(tags[i])]
         IN  IF Len(criterion) > 1
             THEN <<"(">> \o join(<<" ">>, criterion) \o <<")">>
             ELSE criterion[1]

create_search_criteria_by_text(text) ==
    <<"B", "O", "D", "Y", " ">> \o quoted(text)

\* Each argument is NoneV or Some(value); the defaults of the builders are
\* the ones create_search_criterion leaves in place.
create_search_criterion(address, date, size, subject, tags, text) ==
    LET c1 == IF ~IsNone(address)
              THEN <<create_search_criterion_by_mail_address(Val(address), W_FROM)>>
              ELSE <<>>
        c2 == IF ~IsNone(date)
              THEN <<create_search_criterion_by_date(Val(date), NoneV, FALSE)>>
              ELSE <<>>
        c3 == IF ~IsNone(tags) THEN <<create_search_criteria_by_tag(Val(tags))>>
              ELSE <<>>
        c4 == IF ~IsNone(text) THEN <<create_search_criteria_by_text(Val(text))>>
              ELSE <<>>
        c5 == IF ~IsNone(subject)
              THEN <<create_search_criterion_by_subject(Val(subject))>>
              ELSE <<>>
        c6 == IF ~IsNone(size)
              THEN <<create_search_criterion_by_size(Val(size), <<"L", "A", "R", "G", "E", "R">>)>>
              ELSE <<>>
        search_criterion == c1 \o c2 \o c3 \o c4 \o c5 \o c6
    IN  IF Len(search_criterion) = 0 THEN <<W_ALL>> ELSE search_criterion

(***************************************************************************)
(* Inputs of create_search_criterion.                                      *)
(***************************************************************************)
W_seen == <<"s", "e", "e", "n">>
W_px == <<"p", "x">>
Opt(S) == {NoneV} \cup {Some(x) : x \in S}
Addresses == {W_alice}
Dates == {[day |-> 5, month |-> 1, year |-> 2024],
          [day |-> 31, month |-> 12, year |-> 1999]}
Sizes == {0, 1024}
Subjects == {W_a_b}
TagLists == {<<>>, <<W_seen>>, <<W_seen, W_px>>}
Texts == {<<"h", "i">>}

(***************************************************************************)
(* The IMAP session (imaplib's object, driven through imap_cli) and the    *)
(* server's answers.                                                       *)
(***************************************************************************)
STATUS_OK == "OK"
DEFAULT_DIRECTORY == "INBOX"

\* imap_cli.change_dir: SELECT of a mailbox; the session becomes SELECTED on
\* that mailbox when the server accepts it and is left as it was otherwise.
change_dir(account, directory, accepted) ==
    [state |-> IF accepted THEN "SELECTED" ELSE account.state,
     mailbox |-> IF accepted THEN directory ELSE account.mailbox,
     cmds |-> Append(account.cmds, [cmd |-> "SELECT", arg |-> directory,
                                    state |-> account.state])]

\* imap_account.uid('SEARCH', charset, criterion): the command as issued.
uid_search(account, criterion) ==
    [account EXCEPT !.cmds = Append(@, [cmd |-> "SEARCH", arg |-> criterion,
                                        state |-> account.state])]

\* A search criterion argument: None, a raw str, or a list of str.
CritNone == [kind |-> "none"]
CritStr(s) == [kind |-> "str", v |-> s]
CritList(L) == [kind |-> "list", v |-> L]

search_request_search_criterion(search_criterion) ==
    IF search_criterion.kind = "none" THEN W_ALL
    ELSE IF search_criterion.kind = "list"
         THEN combine_search_criterion(search_criterion.v, "AND")
         ELSE search_criterion.v

show_request_search_criterion(search_criterion) ==
    IF search_criterion.kind = "none" THEN W_ALL
    ELSE IF search_criterion.kind = "list"
         THEN join(<<" ">>, search_criterion.v)
         ELSE search_criterion.v

\* log.warning('No directory specified, selecting ...'): the session's log.
log_warning(account, directory) ==
    [account EXCEPT !.cmds = Append(@, [cmd |-> "WARNING", arg |-> directory,
                                        state |-> account.state])]

ensure_selected_always(account, select_ok) ==
    change_dir(log_warning(account, DEFAULT_DIRECTORY), DEFAULT_DIRECTORY, select_ok)

ensure_selected(account, select_ok) ==
    IF account.state # "SELECTED"
    THEN change_dir(log_warning(account, DEFAULT_DIRECTORY), DEFAULT_DIRECTORY,
                    select_ok)
    ELSE account

uids_first(status, data, lim) ==
    IF status = STATUS_OK
    THEN Some(IF IsNone(lim) THEN split(data)
              ELSE SubSeq(split(data), 1,
                          IF Val(lim) < Len(split(data)) THEN Val(lim)
                          ELSE Len(split(data))))
    ELSE NoneV

\* The return value: None (no return statement is reached) unless the status
\* is OK.  data is data_bytes[0] decoded; the answers of the model are ASCII,
\* whose UTF-8 decoding is character for character.
uids_of_response(status, data, lim) ==
    IF status = STATUS_OK
    THEN Some(IF IsNone(lim) THEN split(data) ELSE SliceLast(split(data), Val(lim)))
    ELSE NoneV

\* fetch_uids of search.py ("search") and of show.py ("show"): the value
\* returned and the session it leaves.  server holds the mailboxes the server
\* accepts a SELECT of, and its answer to SEARCH.
fetch_uids(impl, account, lim, search_criterion, server) ==
    LET request_search_criterion ==
            IF impl = "search"
            THEN search_request_search_criterion(search_criterion)
            ELSE show_request_search_criterion(search_criterion)
        selected == ensure_selected(account, DEFAULT_DIRECTORY \in server.mailboxes)
        searched == uid_search(selected, request_search_criterion)
    IN  [ret |-> uids_of_response(server.status, server.data, lim),
         session |-> searched]

(***************************************************************************)
(* Inputs of fetch_uids.                                                   *)
(***************************************************************************)
RawAlphabet == {"1", "2", " "}
RECURSIVE RawOfLen(_)
RawOfLen(n) ==
    IF n = 0 THEN {<<>>}
    ELSE {Append(w, c) : w \in RawOfLen(n - 1), c \in RawAlphabet}
RawResults == UNION {RawOfLen(n) : n \in 0..MaxRawLen}

Limits == {NoneV} \cup {Some(n) : n \in 1..MaxLimit}
Criteria == {CritNone, CritStr(W_a_b), CritList(<<W_FROM, W_a_b>>)}
Sessions == {[state |-> "AUTH", mailbox |-> "", cmds |-> <<>>],
             [state |-> "SELECTED", mailbox |-> "Sent", cmds |-> <<>>]}

(***************************************************************************)
(* Fetch response lines and header blocks of the model.                     *)
(***************************************************************************)
\* the line of the specification's example
L_spec ==
    <<"1", "2", " ", "(", "F", "L", "A", "G", "S", " ", "(", "\\", "S",
      "e", "e", "n", ")", " ", "U", "I", "D", " ", "3", "4", "5", ")">>
\* a line as servers send it
L_server ==
    <<"7", " ", "(", "U", "I", "D", " ", "8", " ", "F", "L", "A", "G", "S",
      " ", "(", "\\", "S", "e", "e", "n", " ", "\\", "F", "l", "a", "g",
      "g", "e", "d", ")", " ", "B", "O", "D", "Y", "[", "H", "E", "A", "D",
      "E", "R", "]", " ", "{", "5", "}">>
\* no FLAGS item
L_no_flags ==
    <<"1", "2", " ", "(", "U", "I", "D", " ", "3", "4", "5", " ", "B", "O",
      "D", "Y", "[", "H", "E", "A", "D", "E", "R", "]", " ", "{", "5", "}">>
\* no leading sequence number
L_no_id ==
    <<"*", " ", "(", "F", "L", "A", "G", "S", " ", "(", "\\", "S", "e",
      "e", "n", ")", " ", "U", "I", "D", " ", "3", "4", "5", " ", "B">>
\* no UID item
L_no_uid ==
    <<"1", "2", " ", "(", "F", "L", "A", "G", "S", " ", "(", "\\", "S",
      "e", "e", "n", ")", " ", "B", "O", "D", "Y", "[", "H", "E", "A", "D",
      "E", "R", "]", " ", "{", "5", "}">>
\* FLAGS list never closed
L_unclosed ==
    <<"1", "2", " ", "(", "F", "L", "A", "G", "S", " ", "(", "\\", "S",
      "e", "e", "n", " ", "U", "I", "D", " ", "3", "4", "5">>
\* UID followed by a second space
L_empty_uid ==
    <<"1", "2", " ", "(", "F", "L", "A", "G", "S", " ", "(", "\\", "S",
      "e", "e", "n", ")", " ", "U", "I", "D", " ", " ", "B", "O", "D", "Y",
      "[", "H", "E", "A", "D", "E", "R", "]", " ", "{", "5", "}">>
\* items repeated, the last FLAGS list unclosed
L_twice ==
    <<"3", " ", "(", "F", "L", "A", "G", "S", " ", "(", "a", ")", " ", "U",
      "I", "D", " ", "4", " ", "U", "I", "D", " ", "5", " ", "F", "L", "A",
      "G", "S", " ", "(", "b">>
\* a header block
H_plain ==
    <<"T", "o", ":", " ", "a", "\n">>
\* a header block after the '>From ' artifact
H_from ==
    <<">", "F", "r", "o", "m", " ", "b", "\n", "T", "o", ":", " ", "a", "\n">>
\* a header block holding '>From ' after its first line
H_inner ==
    <<"T", "o", ":", " ", "a", "\n", ">", "F", "r", "o", "m", " ", "b", "\n">>
P_FLAGS == <<"F", "L", "A", "G", "S", " ", "(">>
P_UID == <<"U", "I", "D", " ">>
P_SP_PAREN == <<" ", "(">>
P_From == <<">", "F", "r", "o", "m", " ">>

(***************************************************************************)
(* The response parser: re.match of FLAGS_RE, MAIL_ID_RE and UID_RE on a   *)
(* line.  Each operator gives NoneV when the pattern does not match and    *)
(* Some(group) when it does, the group being the one a backtracking match  *)
(* with greedy quantifiers captures.                                       *)
(***************************************************************************)
StartsAt(s, i, pat) ==
    /\ i >= 1
    /\ i + Len(pat) - 1 <= Len(s)
    /\ \A k \in 1..Len(pat) : s[i + k - 1] = pat[k]

startswith(s, pat) == StartsAt(s, 1, pat)

SetMax(S) == CHOOSE x \in S : \A y \in S : y <= x
SetMin(S) == CHOOSE x \in S : \A y \in S : x <= y

\* '.' matches every character but a newline.
DotStar(s, i) == \A k \in 1..(i - 1) : s[k] # "\n"

IsDigit(c) == \E d \in 1..10 : Digits[d] = c

\* FLAGS_RE = r'.*FLAGS \((?P<flags>[^\)]*)\)'
flags_re_match(s) ==
    LET starts == {i \in 1..Len(s) :
                      /\ StartsAt(s, i, P_FLAGS)
                      /\ DotStar(s, i)
                      /\ \E j \in (i + Len(P_FLAGS))..Len(s) : s[j] = ")"}
    IN  IF starts = {} THEN NoneV
        ELSE LET i == SetMax(starts)
                 j == SetMin({j \in (i + Len(P_FLAGS))..Len(s) : s[j] = ")"})
             IN  Some(SubSeq(s, i + Len(P_FLAGS), j - 1))

\* MAIL_ID_RE = r'^(?P<mail_id>\d+) \('
mail_id_re_match(s) ==
    LET n == IF \E k \in 1..Len(s) : ~IsDigit(s[k])
             THEN SetMin({k \in 1..Len(s) : ~IsDigit(s[k])}) - 1
             ELSE Len(s)
    IN  IF n >= 1 /\ StartsAt(s, n + 1, P_SP_PAREN) THEN Some(SubSeq(s, 1, n))
        ELSE NoneV

\* UID_RE = r'.*UID (?P<uid>[^ ]*)'
uid_re_match(s) ==
    LET starts == {i \in 1..Len(s) : StartsAt(s, i, P_UID) /\ DotStar(s, i)}
    IN  IF starts = {} THEN NoneV
        ELSE LET i == SetMax(starts)
                 from == i + Len(P_UID)
                 stop == IF \E j \in from..Len(s) : s[j] = " "
                         THEN SetMin({j \in from..Len(s) : s[j] = " "})
                         ELSE Len(s) + 1
             IN  Some(SubSeq(s, from, stop - 1))

mailtext_unchanged(header_block) == header_block

\* The text handed to email.message_from_string.
mailtext_of(header_block) ==
    IF startswith(header_block, P_From)
    THEN SubSeq(header_block, 2, Len(header_block))
    ELSE header_block

\* One pass of the loop body of fetch_mails_info on mail_data = (line,
\* header block): "skip" (continue), "yield" with the record, or "raise"
\* (the IndexError of [0] on an empty split()).  flags and mail_id cannot be
\* the failing index: flags is not indexed and \d+ holds no whitespace.
parse_mail_data(mail_data) ==
    LET flags_match == flags_re_match(mail_data[1])
        mail_id_match == mail_id_re_match(mail_data[1])
        uid_match == uid_re_match(mail_data[1])
    IN  IF IsNone(mail_id_match) \/ IsNone(flags_match) \/ IsNone(uid_match)
        THEN [kind |-> "skip"]
        ELSE IF Len(split(Val(uid_match))) = 0
        THEN [kind |-> "raise", exc |-> "IndexError"]
        ELSE [kind |-> "yield",
              record |-> [flags |-> split(Val(flags_match)),
                          id |-> split(Val(mail_id_match))[1],
                          uid |-> split(Val(uid_match))[1],
                          mailtext |-> mailtext_of(mail_data[2])]]

\* fetch.fetch: one batched FETCH of the whole set; None, and no command,
\* for a set that is None or empty.
fetch(account, message_set, response) ==
    IF IsNone(message_set) \/ Len(Val(message_set)) = 0
    THEN [ret |-> NoneV, session |-> account]
    ELSE [ret |-> Some(response),
          session |-> [account EXCEPT !.cmds =
                          Append(@, [cmd |-> "FETCH", arg |-> Val(message_set),
                                     state |-> account.state])]]

\* The generator fetch_mails_info returns: nothing of its body has run.
NoGen == [state |-> "none"]
new_generator(mails_data) ==
    [state |-> "suspended", mails_data |-> mails_data, yielded |-> <<>>]

\* next() of the generator once mails_data is fetched: run the loop to the
\* next yield, to its end (StopIteration) or to an exception.
RECURSIVE gen_next(_)
gen_next(g) ==
    IF Len(g.mails_data) = 0 THEN [g EXCEPT !.state = "exhausted"]
    ELSE LET r == parse_mail_data(Head(g.mails_data))
             rest == Tail(g.mails_data)
         IN  IF r.kind = "skip" THEN gen_next([g EXCEPT !.mails_data = rest])
             ELSE IF r.kind = "raise"
                  THEN [g EXCEPT !.state = "raised", !.mails_data = rest]
             ELSE [g EXCEPT !.state = "suspended", !.mails_data = rest,
                            !.yielded = Append(@, r.record)]

(***************************************************************************)
(* Inputs of fetch_mails_info.                                             *)
(***************************************************************************)
FetchLines == {L_spec, L_server, L_no_flags, L_no_id, L_no_uid, L_unclosed,
               L_empty_uid, L_twice}
HeaderBlocks == {H_plain, H_from, H_inner}
MailData == {<<l, h>> : l \in FetchLines, h \in HeaderBlocks}

(***************************************************************************)
(* show.py: main.                                                          *)
(***************************************************************************)
\* int(s) for s made of spaces, a sign, digits and letters: NoneV for the
\* ValueError, Some(n) otherwise.
RECURSIVE digits_value(_)
digits_value(ds) ==
    IF Len(ds) = 0 THEN 0
    ELSE 10 * digits_value(SubSeq(ds, 1, Len(ds) - 1))
            + (CHOOSE d \in 0..9 : Digits[d + 1] = ds[Len(ds)])

RECURSIVE strip(_)
strip(s) ==
    IF Len(s) > 0 /\ isspace(s[1]) THEN strip(Tail(s))
    ELSE IF Len(s) > 0 /\ isspace(s[Len(s)]) THEN strip(SubSeq(s, 1, Len(s) - 1))
    ELSE s

py_int(s) ==
    LET t == strip(s)
        signed == Len(t) > 0 /\ t[1] \in {"+", "-"}
        ds == IF signed THEN Tail(t) ELSE t
    IN  IF Len(ds) = 0 \/ \E k \in 1..Len(ds) : ~IsDigit(ds[k]) THEN NoneV
        ELSE Some(IF signed /\ t[1] = "-" THEN 0 - digits_value(ds)
                  ELSE digits_value(ds))

\* The outcome of lines 274-283: the limit, or "error" for the return 1.
parse_limit(arg) ==
    IF ~IsNone(arg) /\ Len(Val(arg)) > 0
    THEN (IF IsNone(py_int(Val(arg))) \/ Val(py_int(Val(arg))) < 1
          THEN [kind |-> "error"]
          ELSE [kind |-> "ok", limit |-> py_int(Val(arg))])
    ELSE [kind |-> "ok", limit |-> NoneV]

\* imap_cli.connect: a session opened and authenticated.
connect ==
    [state |-> "AUTH", mailbox |-> "",
     cmds |-> <<[cmd |-> "CONNECT", arg |-> "", state |-> "NONE"]>>]

\* imap_cli.disconnect
disconnect(s) ==
    [state |-> "LOGOUT", mailbox |-> s.mailbox,
     cmds |-> Append(s.cmds, [cmd |-> "LOGOUT", arg |-> "", state |-> s.state])]

NoSession == [state |-> "NONE", mailbox |-> "", cmds |-> <<>>]

\* The server's FETCH answer: one well-formed line and header block for each
\* UID asked for.
MailDataFor(i, uid) ==
    << str_int(i) \o P_SP_PAREN \o P_UID \o uid \o <<" ">> \o P_FLAGS
          \o <<"\\", "S", "e", "e", "n", ")", " ", "B">>,
       H_plain >>

FetchResponse(uids) ==
    IF IsNone(uids) THEN <<>>
    ELSE [i \in 1..Len(Val(uids)) |-> MailDataFor(i, Val(uids)[i])]

\* fetch_mails_info up to its loop, run by the first next(): mail_set is
\* NoneV or Some(list of UIDs); limit is read only when mail_set is None.
fetch_mails_info(s, mailset, lim, server) ==
    LET uids == IF IsNone(mailset) THEN fetch_uids("show", s, lim, CritNone, server)
                ELSE [ret |-> mailset, session |-> s]
        f == fetch(uids.session, uids.ret, FetchResponse(uids.ret))
    IN  [gen |-> IF IsNone(f.ret)
                 THEN [state |-> "exhausted", mails_data |-> <<>>, yielded |-> <<>>]
                 ELSE gen_next(new_generator(Val(f.ret))),
         session |-> f.session]

(***************************************************************************)
(* Inputs of main: the command line, the configuration file, the server.   *)
(***************************************************************************)
ConfigFiles == {"missing", "complete", "no_password", "no_imap_section"}
LimitArgs ==
    {NoneV, Some(<<>>), Some(<<"a", "b">>), Some(<<"0">>), Some(<<"-", "1">>)}
        \cup {Some(str_int(n)) : n \in 1..MaxLimit}
MailboxArgs == {NoneV, Some("Sent")}
SearchCmds == {<<W_ALL>>, <<W_FROM, W_a_b>>}
ServerUid(i) == str_int(6 + i)
ServerData(k) == join(<<" ">>, [i \in 1..k |-> ServerUid(i)])
Servers ==
    [mailboxes : {{"INBOX", "Sent"}, {"INBOX"}},
     status : {"OK", "NO"},
     data : {ServerData(k) : k \in 0..MaxUids}]
NoRun == [entry |-> "none"]
NoResult == [kind |-> "running"]

(***************************************************************************)
(* The library harness: one call of a function on inputs of the model.     *)
(***************************************************************************)
NoCall == [fn |-> "none"]

Init ==
    /\ pc = "idle"
    /\ call = NoCall
    /\ gen = NoGen
    /\ run = NoRun
    /\ imap_account = NoSession
    /\ limit = NoneV
    /\ mail_set = NoneV
    /\ out = <<>>
    /\ result = NoResult
    /\ intr = "none"

CallEscape ==
    /\ pc = "idle"
    /\ \E w \in Words \cup CritWords :
         call' = [fn |-> "escape", word |-> w, ret |-> escape(w)]
    /\ pc' = "returned"
    /\ UNCHANGED <<gen, main_vars>>

CallCombine ==
    /\ pc = "idle"
    /\ \E L \in ListsUpTo(CritWords, MaxCrit), op \in Operators :
         call' = [fn |-> "combine_search_criterion", search_criterion |-> L,
                  operator |-> op, ret |-> combine_search_criterion(L, op)]
    /\ pc' = "returned"
    /\ UNCHANGED <<gen, main_vars>>

CallCreate ==
    /\ pc = "idle"
    /\ \E address \in Opt(Addresses), date \in Opt(Dates), size \in Opt(Sizes),
          subject \in Opt(Subjects), tags \in Opt(TagLists), text \in Opt(Texts) :
         call' = [fn |-> "create_search_criterion", address |-> address,
                  date |-> date, size |-> size, subject |-> subject,
                  tags |-> tags, text |-> text,
                  ret |-> create_search_criterion(address, date, size, subject,
                                                  tags, text)]
    /\ pc' = "returned"
    /\ UNCHANGED <<gen, main_vars>>

CallFetchUids ==
    /\ pc = "idle"
    /\ \E impl \in {"search", "show"}, account \in Sessions, lim \in Limits,
          criterion \in Criteria, status \in {"OK", "NO"}, data \in RawResults :
         LET server == [mailboxes |-> {DEFAULT_DIRECTORY}, status |-> status, data |-> data]
             r == fetch_uids(impl, account, lim, criterion, server)
         IN  call' = [fn |-> "fetch_uids", impl |-> impl, limit |-> lim,
                      search_criterion |-> criterion, before |-> account,
                      status |-> status, data |-> data,
                      ret |-> r.ret, session |-> r.session]
    /\ pc' = "returned"
    /\ UNCHANGED <<gen, main_vars>>

\* fetch_mails_info(imap_account, mail_set=[...]) called and its generator
\* advanced once: the fetch is made and the loop runs to its first stop.
CallFetchMailsInfo ==
    /\ pc = "idle"
    /\ \E mails_data \in ListsUpTo(MailData, MaxLines) :
         /\ call' = [fn |-> "fetch_mails_info", mails_data |-> mails_data]
         /\ gen' = gen_next(new_generator(mails_data))
    /\ pc' = "iterating"
    /\ UNCHANGED main_vars

\* The consumer takes the next record.
CallNext ==
    /\ pc = "iterating"
    /\ gen.state = "suspended"
    /\ gen' = gen_next(gen)
    /\ UNCHANGED <<pc, call, main_vars>>

(***************************************************************************)
(* main, one action per step.  The command line and the environment are    *)
(* chosen when the program starts.                                         *)
(***************************************************************************)
Exit(r) ==
    /\ result' = r
    /\ pc' = "exited"

Return(code) == [kind |-> "return", code |-> code]
Raise(exc) == [kind |-> "exception", exc |-> exc]

MainStart ==
    /\ pc = "idle"
    /\ \E config_file \in ConfigFiles, limit_arg \in LimitArgs,
          mailbox \in MailboxArgs, search_cmd \in SearchCmds, server \in Servers :
         run' = [entry |-> "main", config_file |-> config_file,
                 limit_arg |-> limit_arg, mailbox |-> mailbox,
                 search_cmd |-> search_cmd, server |-> server]
    /\ pc' = "load_imap_conf"
    /\ UNCHANGED <<call, gen, imap_account, limit, mail_set, out, result, intr>>

\* new_context_from_file(section='imap') and the test of its result.
MainLoadImapConf ==
    /\ pc = "load_imap_conf"
    /\ CASE run.config_file = "missing" -> Exit(Return(1))
         [] run.config_file = "no_imap_section" ->
                Exit(Raise("NoSectionError"))
         [] run.config_file = "no_password" ->
                pc' = "getpass" /\ UNCHANGED result
         [] OTHER -> pc' = "load_display_conf" /\ UNCHANGED result
    /\ UNCHANGED <<call, gen, run, imap_account, limit, mail_set, out, intr>>

\* getpass.getpass() returns the password typed.
MainGetpass ==
    /\ pc = "getpass"
    /\ pc' = "load_display_conf"
    /\ UNCHANGED <<call, gen, main_vars>>

\* new_context_from_file(section='display')
MainLoadDisplayConf ==
    /\ pc = "load_display_conf"
    /\ pc' = "parse_limit"
    /\ UNCHANGED <<call, gen, main_vars>>

MainParseLimit ==
    /\ pc = "parse_limit"
    /\ LET r == parse_limit(run.limit_arg)
       IN  IF r.kind = "error"
           THEN Exit(Return(1)) /\ UNCHANGED limit
           ELSE limit' = r.limit /\ pc' = "connect" /\ UNCHANGED result
    /\ UNCHANGED <<call, gen, run, imap_account, mail_set, out, intr>>

MainConnect ==
    /\ pc = "connect"
    /\ imap_account' = connect
    /\ pc' = "change_dir"
    /\ UNCHANGED <<call, gen, run, limit, mail_set, out, result, intr>>

MainChangeDir ==
    /\ pc = "change_dir"
    /\ LET directory == IF IsNone(run.mailbox) THEN DEFAULT_DIRECTORY
                        ELSE Val(run.mailbox)
       IN  imap_account' = change_dir(imap_account, directory,
                                 directory \in run.server.mailboxes)
    /\ pc' = "fetch_uids"
    /\ UNCHANGED <<call, gen, run, limit, mail_set, out, result, intr>>

\* mail_set = fetch_uids(imap_account, search_criterion=args['<search-cmd>'])
MainFetchUids ==
    /\ pc = "fetch_uids"
    /\ LET r == fetch_uids("show", imap_account, NoneV, CritList(run.search_cmd),
                           run.server)
       IN  /\ mail_set' = r.ret
           /\ imap_account' = r.session
    /\ pc' = "check_len"
    /\ UNCHANGED <<call, gen, run, limit, out, result, intr>>

\* if len(mail_set) == 0: len(None) is a TypeError.
MainCheckLen ==
    /\ pc = "check_len"
    /\ IF IsNone(mail_set) THEN Exit(Raise("TypeError"))
       ELSE IF Len(Val(mail_set)) = 0 THEN Exit(Return(0))
       ELSE pc' = "fetch" /\ UNCHANGED result
    /\ UNCHANGED <<call, gen, run, imap_account, limit, mail_set, out, intr>>

\* What the for statement does with the generator after a next(): write the
\* record yielded, leave the loop, or let the exception through.
Deliver(g) ==
    /\ gen' = g
    /\ CASE g.state = "suspended" ->
                /\ out' = Append(out, g.yielded[Len(g.yielded)].uid)
                /\ pc' = "loop"
                /\ UNCHANGED result
         [] g.state = "raised" -> Exit(Raise("IndexError")) /\ UNCHANGED out
         [] OTHER -> pc' = "disconnect" /\ UNCHANGED <<out, result>>

\* for mail_info in fetch_mails_info(imap_account, limit=limit,
\* mail_set=mail_set): the first next() makes the fetch.
MainFetch ==
    /\ pc = "fetch"
    /\ LET r == fetch_mails_info(imap_account, mail_set, limit, run.server)
       IN  /\ imap_account' = r.session
           /\ Deliver(r.gen)
    /\ UNCHANGED <<call, run, limit, mail_set, intr>>

MainLoop ==
    /\ pc = "loop"
    /\ Deliver(gen_next(gen))
    /\ UNCHANGED <<call, run, imap_account, limit, mail_set, intr>>

MainDisconnect ==
    /\ pc = "disconnect"
    /\ imap_account' = disconnect(imap_account)
    /\ Exit(Return(0))
    /\ UNCHANGED <<call, gen, run, limit, mail_set, out, intr>>

\* The steps that block on the terminal or on the network.
BlockingInTry == {"connect", "change_dir", "fetch_uids", "fetch", "disconnect"}
BlockingOutsideTry == {"getpass"}

\* Ctrl-C during a blocking step: inside the try statement the handler logs
\* it and main returns 0; outside it the KeyboardInterrupt leaves main.
Interrupt ==
    /\ pc \in BlockingInTry \cup BlockingOutsideTry
    /\ intr' = pc
    /\ IF pc \in BlockingInTry THEN Exit(Return(0))
       ELSE Exit(Raise("KeyboardInterrupt"))
    /\ UNCHANGED <<call, gen, run, imap_account, limit, mail_set, out>>

Next ==
    \/ CallEscape
    \/ CallCombine
    \/ CallCreate
    \/ CallFetchUids
    \/ CallFetchMailsInfo
    \/ CallNext
    \/ MainStart
    \/ MainLoadImapConf
    \/ MainGetpass
    \/ MainLoadDisplayConf
    \/ MainParseLimit
    \/ MainConnect
    \/ MainChangeDir
    \/ MainFetchUids
    \/ MainCheckLen
    \/ MainFetch
    \/ MainLoop
    \/ MainDisconnect
    \/ Interrupt

Spec == Init /\ [][Next]_vars

(***************************************************************************)
(* C1: escape(w) is w itself exactly when w holds no whitespace character, *)
(* and otherwise is w between one pair of double quotes, w's own           *)
(* characters (embedded quotes included) unchanged.                        *)
(***************************************************************************)
HasWhitespace(w) == \E i \in 1..Len(w) : w[i] \in {" ", "\t", "\n", "\r", "\f"}

C1_EscapeQuotesIffWhitespace ==
    call.fn = "escape" =>
        /\ (call.ret = call.word) <=> ~HasWhitespace(call.word)
        /\ HasWhitespace(call.word) =>
              /\ Len(call.ret) = Len(call.word) + 2
              /\ call.ret[1] = "\"" /\ call.ret[Len(call.ret)] = "\""
              /\ SubSeq(call.ret, 2, Len(call.ret) - 1) = call.word

C1_Witness ==
    /\ call.fn = "escape"
    /\ call.word = <<"a", "\t", "\"">>
    /\ call.ret = <<"\"", "a", "\t", "\"", "\"">>

(***************************************************************************)
(* C2: with operator AND, or an operator outside AND, OR and NOT, the      *)
(* combined string is "(" then the escaped elements separated by single    *)
(* spaces then ")", for every list, the empty one included.                *)
(***************************************************************************)
RECURSIVE SpaceSeparated(_)
SpaceSeparated(L) ==
    IF Len(L) = 0 THEN <<>>
    ELSE LET w == L[Len(L)]
             e == IF HasWhitespace(w) THEN <<"\"">> \o w \o <<"\"">> ELSE w
             front == SubSeq(L, 1, Len(L) - 1)
         IN  IF Len(front) = 0 THEN e ELSE SpaceSeparated(front) \o <<" ">> \o e

C2_AndRendering ==
    (call.fn = "combine_search_criterion" /\ call.operator \notin {"OR", "NOT"}) =>
        call.ret = <<"(">> \o SpaceSeparated(call.search_criterion) \o <<")">>

C2_Witness ==
    /\ call.fn = "combine_search_criterion"
    /\ call.operator = "XOR"
    /\ call.search_criterion = <<W_FROM, W_a_b>>
    /\ call.ret = <<"(", "F", "R", "O", "M", " ", "\"", "a", " ", "b", "\"", ")">>

C2_WitnessEmpty ==
    /\ call.fn = "combine_search_criterion"
    /\ call.operator = "AND"
    /\ call.search_criterion = <<>>
    /\ call.ret = <<"(", ")">>

(***************************************************************************)
(* C3 (as stated): the list ['FROM', 'alice@example.org'] combined with    *)
(* AND renders as (FROM "alice@example.org"), the address double-quoted.   *)
(***************************************************************************)
C3_Original_AddressQuoted ==
    (/\ call.fn = "combine_search_criterion"
     /\ call.operator = "AND"
     /\ call.search_criterion = <<W_FROM, W_alice>>) =>
        call.ret = <<"(">> \o W_FROM \o <<" ", "\"">> \o W_alice \o <<"\"", ")">>

(***************************************************************************)
(* C3 (amended): the list ['FROM', 'alice@example.org'] combined with AND  *)
(* renders as (FROM alice@example.org): the address holds no whitespace    *)
(* and is not quoted.                                                      *)
(***************************************************************************)
C3_AddressNotQuoted ==
    (/\ call.fn = "combine_search_criterion"
     /\ call.operator = "AND"
     /\ call.search_criterion = <<W_FROM, W_alice>>) =>
        call.ret = <<"(">> \o W_FROM \o <<" ">> \o W_alice \o <<")">>

C3_Witness ==
    /\ call.fn = "combine_search_criterion"
    /\ call.operator = "AND"
    /\ call.search_criterion = <<W_FROM, W_alice>>
    /\ Len(call.ret) = Len(W_FROM) + Len(W_alice) + 3

(***************************************************************************)
(* C4: create_search_criterion returns one criterion per input given, in   *)
(* the order address, date, tags, text, subject, size, and ['ALL'] when    *)
(* no input is given; inputs that carry no criterion at all (none given,   *)
(* or tags given as an empty sequence) collapse to the key ALL, so no      *)
(* returned criterion is the empty string.                                 *)
(***************************************************************************)
CarriesCriterion(c) ==
    \/ ~IsNone(c.address) \/ ~IsNone(c.date) \/ ~IsNone(c.size)
    \/ ~IsNone(c.subject) \/ ~IsNone(c.text)
    \/ (~IsNone(c.tags) /\ Len(Val(c.tags)) > 0)

GivenCount(c) ==
    Cardinality({k \in {"address", "date", "size", "subject", "tags", "text"} :
                    ~IsNone(c[k])})

C4_EmptyCriteriaCollapseToAll ==
    call.fn = "create_search_criterion" =>
        /\ Len(call.ret) >= 1
        /\ GivenCount(call) > 0 => Len(call.ret) = GivenCount(call)
        /\ \A i \in 1..Len(call.ret) : Len(call.ret[i]) > 0
        /\ ~CarriesCriterion(call) => call.ret = <<W_ALL>>

(***************************************************************************)
(* C5: when the SEARCH status is OK, fetch_uids with limit n >= 1 returns  *)
(* the last min(n, k) of the k whitespace-separated tokens of the raw      *)
(* answer, in their order, and with no limit all k of them.                *)
(***************************************************************************)
Min(a, b) == IF a < b THEN a ELSE b

C5_LastTokens ==
    (call.fn = "fetch_uids" /\ call.status = "OK") =>
        LET tokens == split(call.data)
            k == Len(tokens)
        IN  /\ ~IsNone(call.ret)
            /\ IsNone(call.limit) => Val(call.ret) = tokens
            /\ ~IsNone(call.limit) =>
                  LET m == Min(Val(call.limit), k)
                  IN  /\ Len(Val(call.ret)) = m
                      /\ \A i \in 1..m : Val(call.ret)[i] = tokens[k - m + i]

C5_Witness ==
    /\ call.fn = "fetch_uids"
    /\ call.status = "OK"
    /\ call.data = <<"1", " ", "2", "2">>
    /\ call.limit = Some(1)
    /\ call.ret = Some(<< <<"2", "2">> >>)

C5_WitnessFewer ==
    /\ call.fn = "fetch_uids"
    /\ call.status = "OK"
    /\ call.data = <<" ", "2", " ", "1">>
    /\ call.limit = Some(3)
    /\ call.ret = Some(<< <<"2">>, <<"1">> >>)

(***************************************************************************)
(* C6: fetch_mails_info yields one record for each line on which the       *)
(* FLAGS, sequence id and UID patterns all match, in input order, nothing  *)
(* for any other line, and raises nothing; the line                        *)
(* 12 (FLAGS (\Seen) UID 345) gives id 12, flags \Seen and uid 345.        *)
(***************************************************************************)
AllThreeMatch(line) ==
    /\ ~IsNone(flags_re_match(line))
    /\ ~IsNone(mail_id_re_match(line))
    /\ ~IsNone(uid_re_match(line))

RECURSIVE MatchingLines(_)
MatchingLines(mails_data) ==
    IF Len(mails_data) = 0 THEN <<>>
    ELSE (IF AllThreeMatch(Head(mails_data)[1]) THEN <<Head(mails_data)[1]>>
          ELSE <<>>) \o MatchingLines(Tail(mails_data))

C6_OneRecordPerMatchingLine ==
    (call.fn = "fetch_mails_info" /\ gen.state # "suspended") =>
        LET valid == MatchingLines(call.mails_data)
        IN  /\ gen.state = "exhausted"
            /\ Len(gen.yielded) = Len(valid)
            /\ \A i \in 1..Len(valid) :
                  valid[i] = L_spec =>
                      /\ gen.yielded[i].id = <<"1", "2">>
                      /\ gen.yielded[i].flags = << <<"\\", "S", "e", "e", "n">> >>
                      /\ gen.yielded[i].uid = <<"3", "4", "5">>

(***************************************************************************)
(* C7: an uninterrupted run of main that returns has returned 1, with no IMAP command     *)
(* issued, when the configuration file is missing or --limit is not a      *)
(* number or is less than 1, and has returned 0 in every other case.       *)
(***************************************************************************)
LimitInvalid(arg) ==
    /\ ~IsNone(arg)
    /\ \/ IsNone(py_int(Val(arg)))
       \/ Val(py_int(Val(arg))) < 1

C7_ExitCodes ==
    (pc = "exited" /\ result.kind = "return" /\ intr = "none") =>
        IF run.config_file = "missing" \/ LimitInvalid(run.limit_arg)
        THEN result.code = 1 /\ imap_account.cmds = <<>>
        ELSE result.code = 0

(***************************************************************************)
(* C8: a run with --limit=N, N >= 1, whose search matched more than N      *)
(* messages and that ran to its end fetched and printed the messages of    *)
(* the last N UIDs of the search, and no other.                            *)
(***************************************************************************)
FetchedUids ==
    LET fetches == SelectSeq(imap_account.cmds, LAMBDA c : c.cmd = "FETCH")
    IN  IF Len(fetches) = 0 THEN <<>> ELSE fetches[1].arg

C8_LimitCapsFetch ==
    (/\ pc = "exited"
     /\ result = [kind |-> "return", code |-> 0]
     /\ intr = "none"
     /\ ~IsNone(limit)
     /\ run.server.status = "OK"
     /\ Len(split(run.server.data)) > Val(limit)) =>
        LET uids == split(run.server.data)
            lastN == SubSeq(uids, Len(uids) - Val(limit) + 1, Len(uids))
        IN  /\ FetchedUids = lastN
            /\ out = lastN

(***************************************************************************)
(* C9: a run whose SEARCH was answered with a status other than OK ends    *)
(* without an exception, by returning 0 as after a search that matched     *)
(* nothing.                                                                *)
(***************************************************************************)
SearchIssued == \E i \in 1..Len(imap_account.cmds) : imap_account.cmds[i].cmd = "SEARCH"

C9_FailedSearchIsNoResult ==
    (/\ pc = "exited"
     /\ intr = "none"
     /\ SearchIssued
     /\ run.server.status # "OK") =>
        result = [kind |-> "return", code |-> 0]

(***************************************************************************)
(* C10: a run interrupted by the user during a blocking step, the password *)
(* prompt of the configuration loader included, ends with exit code 0; the *)
(* KeyboardInterrupt never leaves main.                                    *)
(***************************************************************************)
C10_InterruptIsCleanExit ==
    (pc = "exited" /\ intr # "none") =>
        result = [kind |-> "return", code |-> 0]

(***************************************************************************)
(* C11: fetch_uids issues exactly one SEARCH, as its last command and in   *)
(* the SELECTED state: entered in another state it first warns and selects *)
(* the default mailbox; entered in the SELECTED state it selects nothing   *)
(* and leaves the current mailbox as it is.  In main too, no SEARCH is     *)
(* issued outside the SELECTED state.                                      *)
(***************************************************************************)
Entry(cmd, arg, state) == [cmd |-> cmd, arg |-> arg, state |-> state]

C11_WitnessSelected ==
    /\ call.fn = "fetch_uids"
    /\ call.before = [state |-> "SELECTED", mailbox |-> "Sent", cmds |-> <<>>]
    /\ call.session.mailbox = "Sent"
    /\ Len(call.session.cmds) = 1

C11_WitnessMain ==
    /\ pc = "check_len"
    /\ \E i \in 1..Len(imap_account.cmds) :
          /\ imap_account.cmds[i] = Entry("SELECT", "Sent", "AUTH")
          /\ i + 2 <= Len(imap_account.cmds)
          /\ imap_account.cmds[i + 1].cmd = "WARNING"
          /\ imap_account.cmds[i + 2] = Entry("SELECT", "INBOX", "AUTH")

(***************************************************************************)
(* C12: the criterion sent with SEARCH is ALL for no criterion, the string *)
(* itself for a raw string, and for a list its AND rendering, "(" then the *)
(* escaped elements separated by spaces then ")"; the fetch_uids of        *)
(* search.py and of show.py send the same.                                 *)
(***************************************************************************)
ExpectedRequest(c) ==
    IF c.kind = "none" THEN <<"A", "L", "L">>
    ELSE IF c.kind = "str" THEN c.v
    ELSE <<"(">> \o SpaceSeparated(c.v) \o <<")">>

C12_SameSearchString ==
    call.fn = "fetch_uids" =>
        call.session.cmds[Len(call.session.cmds)].arg
            = ExpectedRequest(call.search_criterion)

(***************************************************************************)
(* C13 (as stated): the text handed to the message parser is the header    *)
(* block without its whole leading '>From ' when the block begins with     *)
(* '>From ', and the block itself otherwise.                               *)
(***************************************************************************)
\* The (line, header block) pairs of the response that yield a record, in
\* the order of the response.
YieldingData(mails_data) ==
    SelectSeq(mails_data, LAMBDA d : parse_mail_data(d).kind = "yield")

BeginsWithArtifact(h) ==
    /\ Len(h) >= 6
    /\ SubSeq(h, 1, 6) = <<">", "F", "r", "o", "m", " ">>

HandedToParser(expected(_)) ==
    (call.fn = "fetch_mails_info" /\ gen.state # "none") =>
        \A i \in 1..Len(gen.yielded) :
            gen.yielded[i].mailtext
                = expected(YieldingData(call.mails_data)[i][2])

WithoutArtifact(h) ==
    IF BeginsWithArtifact(h) THEN SubSeq(h, 7, Len(h)) ELSE h

C13_Original_ArtifactRemoved == HandedToParser(WithoutArtifact)

(***************************************************************************)
(* C13 (amended): the text handed to the message parser is the header      *)
(* block without its first character '>' when the block begins with        *)
(* '>From ', so that it begins with 'From ', and the block itself          *)
(* otherwise.                                                              *)
(***************************************************************************)
WithoutQuoteMark(h) ==
    IF BeginsWithArtifact(h) THEN SubSeq(h, 2, Len(h)) ELSE h

C13_LeadingMarkRemoved == HandedToParser(WithoutQuoteMark)

C13_Witness ==
    /\ call.fn = "fetch_mails_info"
    /\ Len(gen.yielded) = 2
    /\ YieldingData(call.mails_data)[1][2] = H_from
    /\ gen.yielded[1].mailtext
          = <<"F", "r", "o", "m", " ", "b", "\n", "T", "o", ":", " ", "a", "\n">>
    /\ YieldingData(call.mails_data)[2][2] = H_inner
    /\ gen.yielded[2].mailtext = H_inner

(***************************************************************************)
(* C14: when main returns without an interrupt having been caught, a       *)
(* session that connect opened has been disconnected.                      *)
(***************************************************************************)
Connected ==
    \E i \in 1..Len(imap_account.cmds) : imap_account.cmds[i].cmd = "CONNECT"

C14_DisconnectedOnReturn ==
    (pc = "exited" /\ result.kind = "return" /\ intr = "none" /\ Connected)
        => imap_account.state = "LOGOUT"

=============================================================================
